---- MODULE Spec2Model ----
(***************************************************************************)
(* Model of the column serialization / open driver of                      *)
(* columnar/src/column/serialize.rs: the three-part framing                *)
(*     <column_index_bytes> <column_values_bytes> <u32 index_len>          *)
(* written by serialize_column_mappable_to_u64 / _u128, and its reversal   *)
(* by open_column_u64 / open_column_u128 / open_column_bytes.              *)
(*                                                                         *)
(* Bytes are naturals in 0..255, buffers and the sink are sequences of     *)
(* bytes.  The collaborators the driver calls (column index, numeric       *)
(* codecs, u128 encoder, dictionary, OwnedBytes) live outside the two      *)
(* source files; they are modelled from their contracts and kept small.    *)
(*                                                                         *)
(* A second part models the binary codec of Value (src/schema/value.rs,    *)
(* mod binary_serialize): Value::serialize and Value::deserialize, under   *)
(* the specification ValueSpec.                                            *)
(***************************************************************************)
EXTENDS Integers, Sequences, FiniteSets, TLC

VARIABLES
    output,                  \* the sink `output: &mut impl Write`
    pc,                      \* position of the serialize call
    call,                    \* arguments of the serialize call in progress
    column_index_num_bytes,  \* local of serialize (line 25 / 38)
    opened,                  \* the last open call: entry point, buffer, outcome
    value,                   \* the Value handed to Value::serialize
    writer,                  \* the bytes Value::serialize wrote
    reader,                  \* what is left of the stream Value::deserialize reads
    deserialized             \* the outcome of Value::deserialize

vars == <<output, pc, call, column_index_num_bytes, opened,
          value, writer, reader, deserialized>>

\* The state of the column driver, and of the Value codec (schema/value.rs).
colvars == <<output, pc, call, column_index_num_bytes, opened>>
valvars == <<value, writer, reader, deserialized>>

(***************************************************************************)
(* Bounds of the model.                                                    *)
(***************************************************************************)
MaxVals == 3          \* longest value sequence handed to serialize
MaxVal == 1           \* largest value (values are 0..MaxVal)
MaxDocs == 2          \* most documents of an optional / multivalued index
MaxEstimate == 1      \* largest size estimate an estimator reports
MaxBody == 5          \* longest body of a hand-made u64/u128 buffer
MaxNestedBody == 4    \* longest body of the nested column of a bytes buffer
MaxDict == 2          \* longest dictionary segment of a hand-made bytes buffer

\* The byte values hand-made buffers are built from.
ByteSet == {0, 2, 3}

\* The sink's content before the call.
InitialSinks == {<< >>, <<3, 0>>}

(***************************************************************************)
(* Sequences helpers.                                                      *)
(***************************************************************************)
SeqsUpTo(S, n) == UNION {[1..k -> S] : k \in 0..n}

RECURSIVE SumSeq(_)
SumSeq(s) == IF s = << >> THEN 0 ELSE s[1] + SumSeq(Tail(s))

Take(s, n) == SubSeq(s, 1, n)
Drop(s, n) == SubSeq(s, n + 1, Len(s))

IsPrefix(s, t) == Len(s) <= Len(t) /\ Take(t, Len(s)) = s

Min(a, b) == IF a <= b THEN a ELSE b
SeqMin(s) == CHOOSE m \in {s[i] : i \in 1..Len(s)} : \A i \in 1..Len(s) : m <= s[i]
SeqMax(s) == CHOOSE m \in {s[i] : i \in 1..Len(s)} : \A i \in 1..Len(s) : m >= s[i]

(***************************************************************************)
(* Outcomes: Ok(value), Err(error) of io::Result, and a panic.             *)
(***************************************************************************)
Ok(v) == [tag |-> "Ok", val |-> v]
Err(e) == [tag |-> "Err", err |-> e]
Panic(w) == [tag |-> "Panic", at |-> w]

(***************************************************************************)
(* u32::to_le_bytes / u32::from_le_bytes.                                  *)
(***************************************************************************)
ByteBase == 256

\* u32::to_be_bytes, the other byte order.
ToBeBytes(n) ==
    << (n \div (ByteBase * ByteBase * ByteBase)) % ByteBase,
       (n \div (ByteBase * ByteBase)) % ByteBase,
       (n \div ByteBase) % ByteBase,
       n % ByteBase >>

ToLeBytes(n) ==
    << n % ByteBase,
       (n \div ByteBase) % ByteBase,
       (n \div (ByteBase * ByteBase)) % ByteBase,
       (n \div (ByteBase * ByteBase * ByteBase)) % ByteBase >>

FromLeBytes(b) ==
    b[1] + ByteBase * b[2] + ByteBase * ByteBase * b[3]
         + ByteBase * ByteBase * ByteBase * b[4]

(***************************************************************************)
(* OwnedBytes::split and OwnedBytes::rsplit.  split(n) cuts at n from the  *)
(* front (slice::split_at, which panics when n exceeds the length);        *)
(* rsplit(n) cuts n bytes off the back, i.e. split(len - n), where the     *)
(* subtraction underflows when the buffer is shorter than n.               *)
(***************************************************************************)
Split(bytes, split_len) ==
    IF split_len > Len(bytes)
    THEN Panic("split")
    ELSE [tag |-> "Ok", left |-> Take(bytes, split_len), right |-> Drop(bytes, split_len)]

RSplit(bytes, split_len) ==
    IF Len(bytes) < split_len
    THEN Panic("rsplit")
    ELSE Split(bytes, Len(bytes) - split_len)

(***************************************************************************)
(* Column index (crate::column_index).  A SerializableColumnIndex is one   *)
(* of three shapes; `counts` gives the number of values of each document   *)
(* (a full index carries none: every document has exactly one value).      *)
(* Wire format: one cardinality code byte, then one byte per document.     *)
(***************************************************************************)
FullCode == 0
OptionalCode == 1
MultivaluedCode == 2

FullIndex == [card |-> "Full", counts |-> << >>]

ColumnIndexes ==
    {FullIndex}
    \cup {[card |-> "Optional", counts |-> c] : c \in SeqsUpTo({0, 1}, MaxDocs)}
    \cup {[card |-> "Multivalued", counts |-> c] : c \in SeqsUpTo(0..MaxVals, MaxDocs)}

\* serialize_column_index: the bytes it writes; it returns their count.
SerializeColumnIndex(column_index) ==
    CASE column_index.card = "Full" -> <<FullCode>>
      [] column_index.card = "Optional" -> <<OptionalCode>> \o column_index.counts
      [] column_index.card = "Multivalued" -> <<MultivaluedCode>> \o column_index.counts

\* open_column_index
OpenColumnIndex(bytes) ==
    IF bytes = << >> THEN Err("column index: truncated")
    ELSE LET code == bytes[1]
             rest == Tail(bytes)
         IN CASE code = FullCode ->
                   IF rest = << >> THEN Ok(FullIndex)
                   ELSE Err("column index: trailing bytes")
              [] code = OptionalCode ->
                   IF \A i \in 1..Len(rest) : rest[i] \in {0, 1}
                   THEN Ok([card |-> "Optional", counts |-> rest])
                   ELSE Err("column index: bad optional entry")
              [] code = MultivaluedCode ->
                   Ok([card |-> "Multivalued", counts |-> rest])
              [] OTHER -> Err("column index: unknown cardinality code")

(***************************************************************************)
(* Numeric codec layer, u64 domain (crate::column_values::u64_based).      *)
(* Wire format: the codec's type tag, then the codec's payload.            *)
(*   Bitpacked:       <min> then value - min per value.                    *)
(*   BlockwiseLinear: <num_vals> then per block of BLOCK_SIZE values       *)
(*                    <first> <last> <shift> and, per value, its residual  *)
(*                    against the line through the block's two ends,       *)
(*                    shifted to be non-negative.                          *)
(* Bit-level packing of the deltas is abstracted to one byte per value.    *)
(***************************************************************************)
BitpackedCode == 0
BlockwiseLinearCode == 2
BLOCK_SIZE == 512

CodecCode(codec) == IF codec = "Bitpacked" THEN BitpackedCode ELSE BlockwiseLinearCode

EncodeBitpacked(vals) ==
    LET min == IF vals = << >> THEN 0 ELSE SeqMin(vals)
    IN <<min>> \o [i \in 1..Len(vals) |-> vals[i] - min]

DecodeBitpacked(payload) ==
    IF payload = << >> THEN Err("bitpacked: truncated")
    ELSE Ok([i \in 1..(Len(payload) - 1) |-> payload[1] + payload[i + 1]])

\* The value the block's line predicts at position i (from 0) of m values.
Predicted(first, last, m, i) ==
    IF m <= 1 THEN first ELSE first + ((last - first) * i) \div (m - 1)

EncodeBlock(block) ==
    LET m == Len(block)
        pred(i) == Predicted(block[1], block[m], m, i - 1)
        shift == SeqMax([i \in 1..m |-> pred(i) - block[i]])
    IN <<block[1], block[m], shift>> \o [i \in 1..m |-> block[i] - pred(i) + shift]

RECURSIVE EncodeBlocks(_)
EncodeBlocks(vals) ==
    IF vals = << >> THEN << >>
    ELSE LET m == Min(Len(vals), BLOCK_SIZE)
         IN EncodeBlock(Take(vals, m)) \o EncodeBlocks(Drop(vals, m))

EncodeBlockwiseLinear(vals) == <<Len(vals)>> \o EncodeBlocks(vals)

\* Decoded values of the blocks holding n values, or << -1 >> on a misfit.
RECURSIVE DecodeBlocks(_, _)
DecodeBlocks(data, n) ==
    IF n = 0 THEN (IF data = << >> THEN << >> ELSE << -1 >>)
    ELSE LET m == Min(n, BLOCK_SIZE)
         IN IF Len(data) < 3 + m THEN << -1 >>
            ELSE [i \in 1..m |->
                    Predicted(data[1], data[2], m, i - 1) + data[3 + i] - data[3]]
                 \o DecodeBlocks(Drop(data, 3 + m), n - m)

DecodeBlockwiseLinear(payload) ==
    IF payload = << >> THEN Err("blockwise linear: truncated")
    ELSE LET vals == DecodeBlocks(Tail(payload), payload[1])
         IN IF \E i \in 1..Len(vals) : vals[i] < 0
            THEN Err("blockwise linear: corrupt block")
            ELSE Ok(vals)

\* Iterator::min_by_key over the candidates: the first one of least estimate.
MinByKey(codec_types, estimate) ==
    LET best == CHOOSE i \in 1..Len(codec_types) :
                   /\ \A j \in 1..Len(codec_types) :
                         estimate[codec_types[i]] <= estimate[codec_types[j]]
                   /\ \A j \in 1..(i - 1) :
                         estimate[codec_types[j]] > estimate[codec_types[i]]
    IN codec_types[best]

\* serialize_u64_based_column_values: estimate every candidate, encode with
\* the best one, its type tag first.  `estimate` is what the candidates'
\* estimators report for the value sequence.
SerializeU64BasedColumnValues(vals, codec_types, estimate) ==
    LET best_codec == MinByKey(codec_types, estimate)
    IN <<CodecCode(best_codec)>>
       \o (IF best_codec = "Bitpacked" THEN EncodeBitpacked(vals)
           ELSE EncodeBlockwiseLinear(vals))

\* load_u64_based_column_values
LoadU64BasedColumnValues(bytes) ==
    IF bytes = << >> THEN Err("column values: codec tag missing")
    ELSE CASE bytes[1] = BitpackedCode -> DecodeBitpacked(Tail(bytes))
           [] bytes[1] = BlockwiseLinearCode -> DecodeBlockwiseLinear(Tail(bytes))
           [] OTHER -> Err("column values: unknown codec tag")

(***************************************************************************)
(* u128 direct encoder (crate::column_values): one fixed strategy, the     *)
(* declared value count and then the values.                               *)
(***************************************************************************)
SerializeColumnValuesU128(vals, num_vals) == <<num_vals>> \o vals

OpenU128Mapped(bytes) ==
    IF bytes = << >> THEN Err("u128 values: truncated")
    ELSE IF Len(bytes) - 1 # bytes[1] THEN Err("u128 values: count mismatch")
    ELSE Ok(Tail(bytes))

(***************************************************************************)
(* sstable::Dictionary: a sorted table of distinct terms (one byte each    *)
(* here); a term's ordinal is its position, in [0, num_terms).             *)
(***************************************************************************)
DictionaryFromBytes(bytes) ==
    IF \A i \in 1..(Len(bytes) - 1) : bytes[i] < bytes[i + 1]
    THEN Ok([terms |-> bytes])
    ELSE Err("dictionary: terms not sorted")

NumTerms(dictionary) == Len(dictionary.terms)

(***************************************************************************)
(* The open entry points.  Each returns its outcome together with `calls`, *)
(* the collaborator openers it invoked, in order, with the segment each    *)
(* was handed.                                                             *)
(***************************************************************************)
Called(fn, arg) == [fn |-> fn, arg |-> arg]

\* The length of the trailing length field: rsplit(4), lines 49, 69, 86.
FOOTER_LEN == 4

\* `.as_slice().try_into().unwrap()` to a [u8; 4] (lines 51-54, 71-74, 87):
\* panics unless the payload holds exactly four bytes.
TryIntoUnwrap(payload) ==
    IF Len(payload) = 4 THEN Ok(payload) ELSE Panic("unwrap")

\* A cut measured from the back of the body instead (a length past the body
\* stays past it).
SplitAtFromBack(body, index_num_bytes) ==
    IF index_num_bytes > Len(body) THEN index_num_bytes
    ELSE Len(body) - index_num_bytes

\* Where the body is cut: `body.split(column_index_num_bytes as usize)`
\* (lines 56, 76), measured from the front of the body.
IndexSplitAt(body, index_num_bytes) == index_num_bytes

\* `body.split(dictionary_len as usize)` (line 88).
DictionarySplitAt(body, dictionary_len) == dictionary_len

\* An open that swallows a failure of the values opener and returns a column
\* with no values.
OpenColumnU64Lenient(bytes) ==
    LET r == RSplit(bytes, FOOTER_LEN)
    IN IF r.tag = "Panic" THEN Panic(r.at) @@ [calls |-> << >>]
       ELSE
       LET s == Split(r.left, IndexSplitAt(r.left, FromLeBytes(r.right)))
       IN IF s.tag = "Panic" THEN Panic(s.at) @@ [calls |-> << >>]
          ELSE
          LET column_index == OpenColumnIndex(s.left)
              c1 == <<Called("open_column_index", s.left)>>
          IN IF column_index.tag = "Err" THEN column_index @@ [calls |-> c1]
             ELSE
             LET column_values == LoadU64BasedColumnValues(s.right)
                 c2 == Append(c1, Called("load_u64_based_column_values", s.right))
             IN Ok([idx |-> column_index.val,
                    values |-> IF column_values.tag = "Err" THEN << >>
                               ELSE column_values.val])
                @@ [calls |-> c2]

\* open_column_u64
OpenColumnU64(bytes) ==
    LET r == RSplit(bytes, FOOTER_LEN)
    IN IF r.tag = "Panic" THEN Panic(r.at) @@ [calls |-> << >>]
       ELSE IF TryIntoUnwrap(r.right).tag = "Panic"
       THEN Panic("unwrap") @@ [calls |-> << >>]
       ELSE
       LET body == r.left
           index_num_bytes == FromLeBytes(r.right)
           s == Split(body, IndexSplitAt(body, index_num_bytes))
       IN IF s.tag = "Panic" THEN Panic(s.at) @@ [calls |-> << >>]
          ELSE
          LET column_index == OpenColumnIndex(s.left)
              c1 == <<Called("open_column_index", s.left)>>
          IN IF column_index.tag = "Err" THEN column_index @@ [calls |-> c1]
             ELSE
             LET column_values == LoadU64BasedColumnValues(s.right)
                 c2 == Append(c1, Called("load_u64_based_column_values", s.right))
             IN IF column_values.tag = "Err" THEN column_values @@ [calls |-> c2]
                ELSE Ok([idx |-> column_index.val, values |-> column_values.val])
                     @@ [calls |-> c2]

\* open_column_u128
OpenColumnU128(bytes) ==
    LET r == RSplit(bytes, FOOTER_LEN)
    IN IF r.tag = "Panic" THEN Panic(r.at) @@ [calls |-> << >>]
       ELSE IF TryIntoUnwrap(r.right).tag = "Panic"
       THEN Panic("unwrap") @@ [calls |-> << >>]
       ELSE
       LET body == r.left
           index_num_bytes == FromLeBytes(r.right)
           s == Split(body, IndexSplitAt(body, index_num_bytes))
       IN IF s.tag = "Panic" THEN Panic(s.at) @@ [calls |-> << >>]
          ELSE
          LET column_index == OpenColumnIndex(s.left)
              c1 == <<Called("open_column_index", s.left)>>
          IN IF column_index.tag = "Err" THEN column_index @@ [calls |-> c1]
             ELSE
             LET column_values == OpenU128Mapped(s.right)
                 c2 == Append(c1, Called("open_u128_mapped", s.right))
             IN IF column_values.tag = "Err" THEN column_values @@ [calls |-> c2]
                ELSE Ok([idx |-> column_index.val, values |-> column_values.val])
                     @@ [calls |-> c2]

\* open_column_bytes
OpenColumnBytes(data) ==
    LET r == RSplit(data, FOOTER_LEN)
    IN IF r.tag = "Panic" THEN Panic(r.at) @@ [calls |-> << >>]
       ELSE IF TryIntoUnwrap(r.right).tag = "Panic"
       THEN Panic("unwrap") @@ [calls |-> << >>]
       ELSE
       LET body == r.left
           dictionary_len == FromLeBytes(r.right)
           s == Split(body, DictionarySplitAt(body, dictionary_len))
       IN IF s.tag = "Panic" THEN Panic(s.at) @@ [calls |-> << >>]
          ELSE
          LET dictionary == DictionaryFromBytes(s.left)
              c1 == <<Called("Dictionary::from_bytes", s.left)>>
          IN IF dictionary.tag = "Err" THEN dictionary @@ [calls |-> c1]
             ELSE
             LET term_ord_column == OpenColumnU64(s.right)
                 c2 == Append(c1, Called("open_column_u64", s.right))
                       \o term_ord_column.calls
             IN IF term_ord_column.tag = "Panic"
                THEN Panic(term_ord_column.at) @@ [calls |-> c2]
                ELSE IF term_ord_column.tag = "Err"
                THEN Err(term_ord_column.err) @@ [calls |-> c2]
                ELSE Ok([dictionary |-> dictionary.val,
                         term_ord_column |-> term_ord_column.val])
                     @@ [calls |-> c2]

(***************************************************************************)
(* State machine.                                                          *)
(***************************************************************************)
\* The two candidates, offered in the other order.
CandidatesReversed == <<"BlockwiseLinear", "Bitpacked">>

\* The candidate codecs the u64 path offers (line 41), in declaration order.
Candidates == <<"Bitpacked", "BlockwiseLinear">>

CodecTypes == {"Bitpacked", "BlockwiseLinear"}

ValueSeqs == SeqsUpTo(0..MaxVal, MaxVals)

\* What a caller may pass: an index whose value count matches the values.
Fits(column_index, vals) ==
    column_index.card = "Full" \/ SumSeq(column_index.counts) = Len(vals)

NoCall == [path |-> "none"]
NoOpen == [entry |-> "none"]

\* Hand-made buffers given to the open entry points: short raw buffers and
\* framed ones, body then a 4-byte little-endian length field.
Bodies(n) == SeqsUpTo(ByteSet, n)
FooterLens(body) == 0..(Len(body) + 1) \cup {ByteBase}
ColumnBuffers(n) ==
    SeqsUpTo(ByteSet, 3)
    \cup {body \o ToLeBytes(L) : <<body, L>> \in
            {<<b, l>> \in Bodies(n) \X (0..(n + 1) \cup {ByteBase}) : l \in FooterLens(b)}}
BytesBuffers ==
    SeqsUpTo(ByteSet, 3)
    \cup {d \o nested \o ToLeBytes(D) :
            <<d, nested, D>> \in Bodies(MaxDict) \X ColumnBuffers(MaxNestedBody)
                                 \X (0..(MaxDict + 1) \cup {ByteBase})}

\* The bytes the finished serialize call appended to the sink.
Blob == Drop(output, Len(call.sink0))

Init ==
    /\ output \in InitialSinks
    /\ pc = "idle"
    /\ call = NoCall
    /\ column_index_num_bytes = 0
    /\ opened = NoOpen
    /\ value = [variant |-> "none"]
    /\ writer = << >>
    /\ reader = << >>
    /\ deserialized = [tag |-> "none"]

\* A sink that puts the bytes in front of what it holds.
WritePrepend(sink, bytes) == bytes \o sink

\* Write::write_all on the sink: the bytes are appended.
WriteAll(sink, bytes) == sink \o bytes

\* A failing write leaves some strict prefix of the bytes in the sink.
FailedWrites(sink, bytes) == {sink \o Take(bytes, k) : k \in 0..(Len(bytes) - 1)}

\* Line 25 / 38: the call is entered and serialize_column_index runs.
SerializeIndexStep(path) ==
    /\ UNCHANGED valvars
    /\ pc = "idle"
    /\ opened = NoOpen
    /\ \E column_index \in ColumnIndexes, vals \in ValueSeqs :
         /\ Fits(column_index, vals)
         /\ call' = [path |-> path, column_index |-> column_index, vals |-> vals,
                     sink0 |-> output]
         /\ opened' = NoOpen
         /\ LET index_bytes == SerializeColumnIndex(column_index)
            IN \/ /\ output' = WriteAll(output, index_bytes)
                  /\ column_index_num_bytes' = Len(index_bytes)
                  /\ pc' = "values"
               \/ /\ output' \in FailedWrites(output, index_bytes)
                  /\ column_index_num_bytes' = 0
                  /\ pc' = "failed"

SerializeColumnMappableToU64Enter == SerializeIndexStep("u64")
SerializeColumnMappableToU128Enter == SerializeIndexStep("u128")

\* Lines 39-43: serialize_u64_based_column_values with the two candidates.
SerializeValuesU64 ==
    /\ pc = "values"
    /\ call.path = "u64"
    /\ \E estimate \in [CodecTypes -> 0..MaxEstimate] :
         LET values_bytes ==
               SerializeU64BasedColumnValues(call.vals, Candidates, estimate)
         IN /\ call' = call @@ [estimate |-> estimate]
            /\ \/ /\ output' = WriteAll(output, values_bytes)
                  /\ pc' = "footer"
               \/ /\ output' \in FailedWrites(output, values_bytes)
                  /\ pc' = "failed"
    /\ UNCHANGED <<column_index_num_bytes, opened>>
    /\ UNCHANGED valvars

\* Lines 26-27: to_u128 of every value, then serialize_column_values_u128.
SerializeValuesU128 ==
    /\ pc = "values"
    /\ call.path = "u128"
    /\ LET values_bytes == SerializeColumnValuesU128(call.vals, Len(call.vals))
       IN \/ /\ output' = WriteAll(output, values_bytes)
             /\ pc' = "footer"
          \/ /\ output' \in FailedWrites(output, values_bytes)
             /\ pc' = "failed"
    /\ UNCHANGED <<call, column_index_num_bytes, opened>>
    /\ UNCHANGED valvars

\* A footer that records everything written so far, not the index alone.
WriteFooterTotalLength ==
    /\ pc = "footer"
    /\ LET footer == ToLeBytes(Len(output) - Len(call.sink0))
       IN \/ /\ output' = WriteAll(output, footer)
             /\ pc' = "done"
          \/ /\ output' \in FailedWrites(output, footer)
             /\ pc' = "failed"
    /\ UNCHANGED <<call, column_index_num_bytes, opened>>
    /\ UNCHANGED valvars

\* A footer written although an earlier write of the call has failed.
WriteFooterAfterFailure ==
    /\ pc \in {"footer", "failed"}
    /\ LET footer == ToLeBytes(column_index_num_bytes)
       IN \/ /\ output' = WriteAll(output, footer)
             /\ pc' = "done"
          \/ /\ output' \in FailedWrites(output, footer)
             /\ pc' = "failed"
    /\ UNCHANGED <<call, column_index_num_bytes, opened>>
    /\ UNCHANGED valvars

\* Line 28 / 44: the footer, then Ok(()).
WriteFooter ==
    /\ pc = "footer"
    /\ LET footer == ToLeBytes(column_index_num_bytes)
       IN \/ /\ output' = WriteAll(output, footer)
             /\ pc' = "done"
          \/ /\ output' \in FailedWrites(output, footer)
             /\ pc' = "failed"
    /\ UNCHANGED <<call, column_index_num_bytes, opened>>
    /\ UNCHANGED valvars

\* The buffers an open entry point is given: the blob just serialized, or,
\* where no serialize call was made, a hand-made one.
Inputs(handmade) ==
    IF pc = "done" THEN {Blob}
    ELSE IF pc = "idle" /\ opened = NoOpen THEN handmade
    ELSE {}

OpenU64 ==
    /\ \E bytes \in Inputs(ColumnBuffers(MaxBody)) :
         opened' = [entry |-> "open_column_u64", bytes |-> bytes,
                    result |-> OpenColumnU64(bytes)]
    /\ UNCHANGED <<output, pc, call, column_index_num_bytes>>
    /\ UNCHANGED valvars

OpenU128 ==
    /\ \E bytes \in Inputs(ColumnBuffers(MaxBody)) :
         opened' = [entry |-> "open_column_u128", bytes |-> bytes,
                    result |-> OpenColumnU128(bytes)]
    /\ UNCHANGED <<output, pc, call, column_index_num_bytes>>
    /\ UNCHANGED valvars

OpenBytes ==
    /\ \E data \in Inputs(BytesBuffers) :
         opened' = [entry |-> "open_column_bytes", bytes |-> data,
                    result |-> OpenColumnBytes(data)]
    /\ UNCHANGED <<output, pc, call, column_index_num_bytes>>
    /\ UNCHANGED valvars

Next ==
    \/ SerializeColumnMappableToU64Enter
    \/ SerializeColumnMappableToU128Enter
    \/ SerializeValuesU64
    \/ SerializeValuesU128
    \/ WriteFooter
    \/ OpenU64
    \/ OpenU128
    \/ OpenBytes

Spec == Init /\ [][Next]_vars

(***************************************************************************)
(* Properties.                                                             *)
(***************************************************************************)
\* What the two collaborator steps of the call in progress write.
IndexBytes == SerializeColumnIndex(call.column_index)
ValuesBytes ==
    IF call.path = "u64"
    THEN SerializeU64BasedColumnValues(call.vals, <<"Bitpacked", "BlockwiseLinear">>,
                                       call.estimate)
    ELSE SerializeColumnValuesU128(call.vals, Len(call.vals))

\* The little-endian reading of the last four bytes of a buffer.
TrailingLength(b) ==
    LET n == Len(b)
    IN b[n - 3] + 256 * b[n - 2] + 65536 * b[n - 1] + 16777216 * b[n]

\* C1: a successful serialize call (either entry point) appends the column
\* index bytes, then the values bytes, then exactly 4 bytes that read, as a
\* little-endian u32, the number of bytes the column-index step wrote.
C1_FooterIsIndexLength ==
    pc = "done" =>
        /\ Len(Blob) = Len(IndexBytes) + Len(ValuesBytes) + 4
        /\ Take(Blob, Len(IndexBytes)) = IndexBytes
        /\ SubSeq(Blob, Len(IndexBytes) + 1, Len(Blob) - 4) = ValuesBytes
        /\ TrailingLength(Blob) = Len(IndexBytes)

C1_Witness ==
    /\ pc = "done"
    /\ call.path = "u64"
    /\ call.column_index.card = "Multivalued"
    /\ Len(call.vals) >= 2

\* C2: serialize is purely additive: every step only appends to the sink
\* (what the sink held, before the call or written by it, is never
\* rewritten), and a successful call has grown the sink by exactly
\* len(index) + len(values) + 4 with the footer as its last write.
C2_PurelyAdditive ==
    [][ /\ IsPrefix(output, output')
        /\ pc' = "done" =>
             /\ Len(output') = Len(call'.sink0) + Len(IndexBytes') + Len(ValuesBytes') + 4
             /\ Take(output', Len(call'.sink0)) = call'.sink0
             /\ pc = "done" \/ (pc = "footer" /\ Len(output') = Len(output) + 4)
      ]_vars

C2_Witness ==
    /\ pc = "done"
    /\ call.path = "u128"
    /\ call.sink0 # << >>
    /\ Len(call.vals) >= 1

\* C3: opening the blob a serialize call produced, with the matching entry
\* point, succeeds; the index opener is handed exactly the bytes the index
\* serializer wrote, the values opener exactly the bytes the values
\* serializer wrote, and the column has the original index and values.
C3_RoundTrip ==
    (/\ pc = "done"
     /\ opened.entry = (IF call.path = "u64" THEN "open_column_u64"
                        ELSE "open_column_u128")) =>
        /\ opened.result.tag = "Ok"
        /\ opened.result.calls =
             << Called("open_column_index", IndexBytes),
                Called(IF call.path = "u64" THEN "load_u64_based_column_values"
                       ELSE "open_u128_mapped", ValuesBytes) >>
        /\ opened.result.val = [idx |-> call.column_index, values |-> call.vals]

C3_Witness ==
    /\ pc = "done"
    /\ call.path = "u64"
    /\ opened.entry = "open_column_u64"
    /\ opened.result.tag = "Ok"
    /\ call.column_index.card = "Optional"
    /\ Len(call.vals) >= 2
    /\ call.estimate["BlockwiseLinear"] < call.estimate["Bitpacked"]

\* C4: open_column_u64 / open_column_u128 read the last 4 bytes as the
\* little-endian length L and cut the body (the buffer without them) from
\* its front: the index opener gets body[0, L), the values opener
\* body[L, end), and the two segments together are the body.
C4_SplitFromFront ==
    (/\ opened.entry \in {"open_column_u64", "open_column_u128"}
     /\ Len(opened.result.calls) >= 1) =>
        LET b == opened.bytes
            body == SubSeq(b, 1, Len(b) - 4)
            L == TrailingLength(b)
            calls == opened.result.calls
        IN /\ calls[1].arg = SubSeq(body, 1, L)
           /\ Len(calls[1].arg) = L
           /\ Len(calls) >= 2 =>
                /\ calls[2].arg = SubSeq(body, L + 1, Len(body))
                /\ calls[1].arg \o calls[2].arg = body

C4_Witness ==
    /\ pc = "idle"
    /\ opened.entry = "open_column_u128"
    /\ Len(opened.result.calls) = 2
    /\ Len(opened.result.calls[1].arg) >= 1
    /\ Len(opened.result.calls[2].arg) >= 2

\* C5: every open entry point answers a buffer shorter than 4 bytes with an
\* I/O error, never a panic; so does open_column_bytes when fewer than 4
\* bytes remain for the nested column after the dictionary.
C5_ShortBufferIsError ==
    /\ (opened.entry # "none" /\ Len(opened.bytes) < 4) =>
          opened.result.tag = "Err"
    /\ (/\ opened.entry = "open_column_bytes"
        /\ Len(opened.result.calls) >= 2
        /\ Len(opened.result.calls[2].arg) < 4) =>
          opened.result.tag = "Err"

\* C6: every open entry point answers a buffer of at least 4 bytes whose
\* trailing length field exceeds the body's length with an I/O error, never
\* a panic.
C6_OversizedLengthIsError ==
    (/\ opened.entry # "none"
     /\ Len(opened.bytes) >= 4
     /\ TrailingLength(opened.bytes) > Len(opened.bytes) - 4) =>
        opened.result.tag = "Err"

\* C7: open_column_bytes reads its buffer as dictionary bytes, nested u64
\* column blob, 4-byte little-endian dictionary length D: the Dictionary is
\* opened from exactly the first D bytes of the body, the nested column by
\* open_column_u64 from exactly the remaining body bytes (split by their own
\* trailing index-length footer), and the two are wrapped as the BytesColumn.
C7_BytesFraming ==
    (/\ opened.entry = "open_column_bytes"
     /\ Len(opened.result.calls) >= 1) =>
        LET b == opened.bytes
            body == SubSeq(b, 1, Len(b) - 4)
            D == TrailingLength(b)
            nested == SubSeq(body, D + 1, Len(body))
            r == opened.result
            calls == r.calls
        IN /\ calls[1] = Called("Dictionary::from_bytes", SubSeq(body, 1, D))
           /\ Len(calls[1].arg) = D
           /\ Len(calls) >= 2 => calls[2] = Called("open_column_u64", nested)
           /\ Len(calls) >= 3 =>
                calls[3] = Called("open_column_index",
                                  SubSeq(nested, 1, TrailingLength(nested)))
           /\ r.tag = "Ok" =>
                /\ Len(calls) = 4
                /\ calls[3].arg \o calls[4].arg = SubSeq(nested, 1, Len(nested) - 4)
                /\ r.val.dictionary = [terms |-> SubSeq(body, 1, D)]
                /\ r.val.term_ord_column =
                     [idx |-> OpenColumnIndex(calls[3].arg).val,
                      values |-> LoadU64BasedColumnValues(calls[4].arg).val]

C7_Witness ==
    /\ opened.entry = "open_column_bytes"
    /\ opened.result.tag = "Ok"
    /\ NumTerms(opened.result.val.dictionary) >= 1
    /\ Len(opened.result.val.term_ord_column.values) >= 1

\* C8: in every bytes column open_column_bytes returns, each term ordinal of
\* the nested column is below dictionary.num_terms().
C8_OrdinalsBelowNumTerms ==
    (/\ opened.entry = "open_column_bytes"
     /\ opened.result.tag = "Ok") =>
        LET ords == opened.result.val.term_ord_column.values
        IN \A i \in 1..Len(ords) : ords[i] < NumTerms(opened.result.val.dictionary)

\* C9: no partial success on open.  The index is opened first; if it fails
\* the values opener is not run and that error is the result; if the values
\* opener fails its error is the result; a Column is returned only when both
\* opened.  For a bytes column the same holds of the dictionary (first) and
\* the nested column (second).
C9_NoPartialSuccess ==
    LET r == opened.result
        calls == r.calls
    IN /\ (opened.entry \in {"open_column_u64", "open_column_u128"}
           /\ Len(calls) >= 1) =>
            LET i == OpenColumnIndex(calls[1].arg)
            IN /\ calls[1].fn = "open_column_index"
               /\ i.tag = "Err" => (r.tag = "Err" /\ r.err = i.err /\ Len(calls) = 1)
               /\ i.tag = "Ok" =>
                    /\ Len(calls) = 2
                    /\ calls[2].fn = (IF opened.entry = "open_column_u64"
                                      THEN "load_u64_based_column_values"
                                      ELSE "open_u128_mapped")
                    /\ LET v == IF opened.entry = "open_column_u64"
                                THEN LoadU64BasedColumnValues(calls[2].arg)
                                ELSE OpenU128Mapped(calls[2].arg)
                       IN /\ v.tag = "Err" => (r.tag = "Err" /\ r.err = v.err)
                          /\ v.tag = "Ok" =>
                               (r.tag = "Ok" /\ r.val = [idx |-> i.val, values |-> v.val])
       /\ (opened.entry = "open_column_bytes" /\ Len(calls) >= 1) =>
            LET d == DictionaryFromBytes(calls[1].arg)
            IN /\ calls[1].fn = "Dictionary::from_bytes"
               /\ d.tag = "Err" => (r.tag = "Err" /\ r.err = d.err /\ Len(calls) = 1)
               /\ d.tag = "Ok" =>
                    /\ Len(calls) >= 2
                    /\ calls[2].fn = "open_column_u64"
                    /\ LET n == OpenColumnU64(calls[2].arg)
                       IN /\ n.tag = "Err" => (r.tag = "Err" /\ r.err = n.err)
                          /\ r.tag = "Ok" =>
                               (n.tag = "Ok" /\ r.val.term_ord_column = n.val
                                /\ r.val.dictionary = d.val)

C9_Witness ==
    /\ opened.entry = "open_column_u64"
    /\ Len(opened.result.calls) = 2
    /\ opened.result.tag = "Err"

\* C10: on the u64 path the values are written by the candidate of least
\* size estimate among Bitpacked and BlockwiseLinear, Bitpacked when the two
\* estimates are equal (its tag is the first byte of the values segment);
\* the u128 path consults no estimate and writes its one fixed encoding.
C10_CodecSelection ==
    pc \in {"footer", "done"} =>
        LET values_bytes == Drop(Blob, column_index_num_bytes)
        IN IF call.path = "u64"
           THEN values_bytes[1] =
                  (IF call.estimate["Bitpacked"] <= call.estimate["BlockwiseLinear"]
                   THEN BitpackedCode ELSE BlockwiseLinearCode)
           ELSE /\ DOMAIN call = {"path", "column_index", "vals", "sink0"}
                /\ Take(values_bytes, Len(call.vals) + 1) = <<Len(call.vals)>> \o call.vals

C10_Witness ==
    /\ pc = "done"
    /\ call.path = "u64"
    /\ call.estimate["Bitpacked"] = call.estimate["BlockwiseLinear"]
    /\ Len(call.vals) >= 1

(***************************************************************************)
(* The binary codec of Value (src/schema/value.rs, mod binary_serialize).  *)
(*                                                                         *)
(* The BinarySerializable primitives it calls (u8, u64, i64, u128, bool,   *)
(* String, Vec<u8>, Facet), f64_to_u64 / u64_to_f64 and serde_json are     *)
(* outside the source files and modelled by their wire formats: integers   *)
(* are fixed-width little-endian, strings and byte vectors are prefixed by *)
(* their VInt length, JSON text is self-delimiting.  A reader function     *)
(* returns Read(value, rest) with the stream left after it, or an error.   *)
(***************************************************************************)
Read(v, rest) == [tag |-> "Ok", val |-> v, rest |-> rest]
IoError(kind, msg) == [tag |-> "Err", kind |-> kind, msg |-> msg]

\* The n-byte little-endian two's complement representation of v.
RECURSIVE FixedLe(_, _)
FixedLe(v, n) ==
    IF n = 0 THEN << >> ELSE <<v % ByteBase>> \o FixedLe(v \div ByteBase, n - 1)

\* The unsigned / signed integer of little-endian bytes.
RECURSIVE UnsignedOfLe(_)
UnsignedOfLe(b) ==
    IF b = << >> THEN 0 ELSE b[1] + ByteBase * UnsignedOfLe(Tail(b))

RECURSIVE SignedOfLe(_)
SignedOfLe(b) ==
    IF Len(b) = 1 THEN (IF b[1] >= 128 THEN b[1] - ByteBase ELSE b[1])
    ELSE b[1] + ByteBase * SignedOfLe(Tail(b))

\* <u8 as BinarySerializable>::deserialize
ReadU8(stream) ==
    IF stream = << >> THEN IoError("UnexpectedEof", "failed to fill whole buffer")
    ELSE Read(stream[1], Tail(stream))

\* Fixed-width integers: u64 and i64 (8 bytes), u128 (16 bytes).
ReadFixed(stream, n) ==
    IF Len(stream) < n THEN IoError("UnexpectedEof", "failed to fill whole buffer")
    ELSE Read(Take(stream, n), Drop(stream, n))

ReadU64(stream) ==
    LET r == ReadFixed(stream, 8)
    IN IF r.tag = "Err" THEN r ELSE Read(UnsignedOfLe(r.val), r.rest)

ReadI64(stream) ==
    LET r == ReadFixed(stream, 8)
    IN IF r.tag = "Err" THEN r ELSE Read(SignedOfLe(r.val), r.rest)

ReadU128(stream) ==
    LET r == ReadFixed(stream, 16)
    IN IF r.tag = "Err" THEN r ELSE Read(UnsignedOfLe(r.val), r.rest)

\* <bool as BinarySerializable>
SerializeBool(b) == <<IF b THEN 1 ELSE 0>>

ReadBool(stream) ==
    LET r == ReadU8(stream)
    IN IF r.tag = "Err" THEN r
       ELSE IF r.val = 0 THEN Read(FALSE, r.rest)
       ELSE IF r.val = 1 THEN Read(TRUE, r.rest)
       ELSE IoError("InvalidData", "invalid bool value on deserialization, data corrupted")

\* VInt: 7 bits per byte, least significant first, the last byte marked by
\* its high bit.
STOP_BIT == 128

RECURSIVE SerializeVInt(_)
SerializeVInt(val) ==
    IF val \div STOP_BIT = 0 THEN <<(val % STOP_BIT) + STOP_BIT>>
    ELSE <<val % STOP_BIT>> \o SerializeVInt(val \div STOP_BIT)

RECURSIVE ReadVInt(_)
ReadVInt(stream) ==
    IF stream = << >>
    THEN IoError("InvalidData", "Reach end of buffer while reading VInt")
    ELSE IF stream[1] >= STOP_BIT
    THEN Read(stream[1] - STOP_BIT, Tail(stream))
    ELSE LET r == ReadVInt(Tail(stream))
         IN IF r.tag = "Err" THEN r
            ELSE Read(stream[1] + STOP_BIT * r.val, r.rest)

\* <String as BinarySerializable>: the VInt length, then the UTF-8 bytes.
\* Reading takes at most that many bytes (`take(len).read_to_string`), so a
\* stream that ends early yields a shorter string; bytes of 128 and more (no
\* multi-byte sequence is modelled) are invalid UTF-8.
SerializeString(text) == SerializeVInt(Len(text)) \o text

ReadString(stream) ==
    LET l == ReadVInt(stream)
    IN IF l.tag = "Err" THEN l
       ELSE LET n == Min(l.val, Len(l.rest))
                text == Take(l.rest, n)
            IN IF \E i \in 1..n : text[i] >= 128
               THEN IoError("InvalidData", "stream did not contain valid UTF-8")
               ELSE Read(text, Drop(l.rest, n))

\* <Vec<u8> as BinarySerializable>: the VInt length, then every item.
SerializeBytes(bytes) == SerializeVInt(Len(bytes)) \o bytes

ReadBytes(stream) ==
    LET l == ReadVInt(stream)
    IN IF l.tag = "Err" THEN l
       ELSE IF Len(l.rest) < l.val
       THEN IoError("UnexpectedEof", "failed to fill whole buffer")
       ELSE Read(Take(l.rest, l.val), Drop(l.rest, l.val))

\* f64_to_u64 / u64_to_f64 on the eight little-endian bytes of the bit
\* pattern: a non-negative float has its sign bit set, a negative one has
\* every bit flipped; the inverse tests the top bit of the mapped value.
F64ToU64(bits) ==
    IF bits[8] < 128 THEN [bits EXCEPT ![8] = @ + 128]
    ELSE [i \in 1..8 |-> 255 - bits[i]]

U64ToF64(mapped) ==
    IF mapped[8] >= 128 THEN [mapped EXCEPT ![8] = @ - 128]
    ELSE [i \in 1..8 |-> 255 - mapped[i]]

\* Ipv6Addr::to_u128 / from_u128: the 16 octets read big-endian.
IpToU128(octets) == UnsignedOfLe([i \in 1..16 |-> octets[17 - i]])
IpFromU128(n) == LET le == FixedLe(n, 16) IN [i \in 1..16 |-> le[17 - i]]

\* serde_json text, reduced to what the codec depends on: an object is
\* written between '{' and '}', holds leaves (one byte each) and nested
\* objects, and is self-delimiting.
OPEN_BRACE == 123
CLOSE_BRACE == 125

JsonLeaf(b) == [leaf |-> b, items |-> << >>]
JsonObj(items) == [leaf |-> -1, items |-> items]

RECURSIVE JsonText(_)
RECURSIVE JsonItemsText(_)
JsonText(node) ==
    IF node.leaf >= 0 THEN <<node.leaf>>
    ELSE <<OPEN_BRACE>> \o JsonItemsText(node.items) \o <<CLOSE_BRACE>>
JsonItemsText(items) ==
    IF items = << >> THEN << >>
    ELSE JsonText(Head(items)) \o JsonItemsText(Tail(items))

\* The items of an object whose '{' has been read, up to and including its
\* '}'; nothing after the '}' is read.
RECURSIVE ParseJsonItems(_)
ParseJsonItems(stream) ==
    IF stream = << >>
    THEN IoError("UnexpectedEof", "EOF while parsing an object")
    ELSE IF stream[1] = CLOSE_BRACE THEN Read(<< >>, Tail(stream))
    ELSE IF stream[1] >= 128
    THEN IoError("InvalidData", "invalid unicode code point")
    ELSE IF stream[1] = OPEN_BRACE
    THEN LET inner == ParseJsonItems(Tail(stream))
         IN IF inner.tag = "Err" THEN inner
            ELSE LET more == ParseJsonItems(inner.rest)
                 IN IF more.tag = "Err" THEN more
                    ELSE Read(<<JsonObj(inner.val)>> \o more.val, more.rest)
    ELSE LET more == ParseJsonItems(Tail(stream))
         IN IF more.tag = "Err" THEN more
            ELSE Read(<<JsonLeaf(stream[1])>> \o more.val, more.rest)

\* serde_json::Deserializer::from_reader(reader) followed by
\* Map::deserialize(&mut de): one object, no end-of-input check.
ParseJsonObject(stream) ==
    IF stream = << >>
    THEN IoError("UnexpectedEof", "EOF while parsing a value")
    ELSE IF stream[1] # OPEN_BRACE
    THEN IoError("InvalidData", "invalid type: expected a map")
    ELSE LET r == ParseJsonItems(Tail(stream))
         IN IF r.tag = "Err" THEN r ELSE Read(JsonObj(r.val), r.rest)

\* serde_json::to_writer(writer, &map)
JsonToWriter(map) == JsonText(map)

\* PreTokenizedString { text, tokens } through serde: an object holding the
\* characters of the text and then one nested object holding the tokens.
Leaves(bytes) == [i \in 1..Len(bytes) |-> JsonLeaf(bytes[i])]
LeafBytes(items) == [i \in 1..Len(items) |-> items[i].leaf]
AllLeaves(items) == \A i \in 1..Len(items) : items[i].leaf >= 0

\* serde_json::to_string(tok_str)
SerdeToString(tok_str) ==
    Ok(JsonText(JsonObj(Leaves(tok_str.text) \o <<JsonObj(Leaves(tok_str.tokens))>>)))

\* serde_json::from_str::<PreTokenizedString>(&str_val): the whole string
\* must be one object of that shape.
SerdeFromStr(str_val) ==
    LET r == ParseJsonObject(str_val)
    IN IF r.tag = "Err" THEN Err("json")
       ELSE IF r.rest # << >> THEN Err("trailing characters")
       ELSE LET items == r.val.items
                n == Len(items)
            IN IF /\ n >= 1
                  /\ items[n].leaf < 0
                  /\ AllLeaves(items[n].items)
                  /\ AllLeaves(Take(items, n - 1))
               THEN Ok([text |-> LeafBytes(Take(items, n - 1)),
                        tokens |-> LeafBytes(items[n].items)])
               ELSE Err("missing field")

(***************************************************************************)
(* enum Value and its type codes.  Each variant carries its payload in a   *)
(* field of its own: text (Str), tok_str (PreTokStr), u64, i64, f64 (the   *)
(* bit pattern as eight little-endian bytes), bool, date (a DateTime,      *)
(* which holds timestamp_micros), facet (the encoded path), bytes, map     *)
(* (JsonObject) and ip (the sixteen octets).                               *)
(***************************************************************************)
TEXT_CODE == 0
U64_CODE == 1
I64_CODE == 2
HIERARCHICAL_FACET_CODE == 3
BYTES_CODE == 4
DATE_CODE == 5
F64_CODE == 6
EXT_CODE == 7
JSON_OBJ_CODE == 8
BOOL_CODE == 9
IP_CODE == 10

TOK_STR_CODE == 0

Str(text) == [variant |-> "Str", text |-> text]
PreTokStr(tok_str) == [variant |-> "PreTokStr", tok_str |-> tok_str]
U64(val) == [variant |-> "U64", u64 |-> val]
I64(val) == [variant |-> "I64", i64 |-> val]
F64(val) == [variant |-> "F64", f64 |-> val]
Bool(val) == [variant |-> "Bool", bool |-> val]
Date(val) == [variant |-> "Date", date |-> val]
Facet(facet) == [variant |-> "Facet", facet |-> facet]
Bytes(bytes) == [variant |-> "Bytes", bytes |-> bytes]
JsonObject(map) == [variant |-> "JsonObject", map |-> map]
IpAddr(ip) == [variant |-> "IpAddr", ip |-> ip]

\* DateTime::from_timestamp_micros
FromTimestampMicros(micros) == [timestamp_micros |-> micros]

\* What serialize did: Ok or the error, and the bytes it wrote.
Wrote(bytes) == [tag |-> "Ok", bytes |-> bytes]
WriteFailed(kind, msg, bytes) ==
    [tag |-> "Err", kind |-> kind, msg |-> msg, bytes |-> bytes]

\* A Date written under the code of u64; the reader then builds a U64.
SerializeDateAsU64(val) == <<U64_CODE>> \o FixedLe(val.timestamp_micros, 8)

\* The Value::Date arm of serialize: the code, then timestamp_micros.
SerializeDate(val) == <<DATE_CODE>> \o FixedLe(val.timestamp_micros, 8)

\* <Value as BinarySerializable>::serialize
Serialize(self) ==
    CASE self.variant = "Str" ->
           Wrote(<<TEXT_CODE>> \o SerializeString(self.text))
      [] self.variant = "PreTokStr" ->
           LET text == SerdeToString(self.tok_str)
           IN IF text.tag = "Ok"
              THEN Wrote(<<EXT_CODE, TOK_STR_CODE>> \o SerializeString(text.val))
              ELSE WriteFailed("Other",
                               "Failed to dump Value::PreTokStr(_) to json.",
                               <<EXT_CODE, TOK_STR_CODE>>)
      [] self.variant = "U64" -> Wrote(<<U64_CODE>> \o FixedLe(self.u64, 8))
      [] self.variant = "I64" -> Wrote(<<I64_CODE>> \o FixedLe(self.i64, 8))
      [] self.variant = "F64" -> Wrote(<<F64_CODE>> \o F64ToU64(self.f64))
      [] self.variant = "Bool" -> Wrote(<<BOOL_CODE>> \o SerializeBool(self.bool))
      [] self.variant = "Date" -> Wrote(SerializeDate(self.date))
      [] self.variant = "Facet" ->
           Wrote(<<HIERARCHICAL_FACET_CODE>> \o SerializeString(self.facet))
      [] self.variant = "Bytes" ->
           Wrote(<<BYTES_CODE>> \o SerializeBytes(self.bytes))
      [] self.variant = "JsonObject" ->
           Wrote(<<JSON_OBJ_CODE>> \o JsonToWriter(self.map))
      [] self.variant = "IpAddr" ->
           Wrote(<<IP_CODE>> \o FixedLe(IpToU128(self.ip), 16))

\* An unknown code answered with a Value made up for it.
DefaultForTypeCode(type_code) == Read(Str(<< >>), << >>)

\* The `_` arm of the match on type_code.
UnknownTypeCode(type_code) ==
    IoError("InvalidData",
            <<"No field type is associated with code ", type_code>>)

\* The `_` arm of the match on ext_type_code.
UnknownExtTypeCode(ext_type_code) ==
    IoError("InvalidData",
            <<"No extended field type is associated with code ", ext_type_code>>)

\* The EXT_CODE arm of deserialize.
DeserializeExt(stream) ==
    LET code == ReadU8(stream)
    IN IF code.tag = "Err" THEN code
       ELSE IF code.val = TOK_STR_CODE
       THEN LET str_val == ReadString(code.rest)
            IN IF str_val.tag = "Err" THEN str_val
               ELSE LET parsed == SerdeFromStr(str_val.val)
                    IN IF parsed.tag = "Ok"
                       THEN Read(PreTokStr(parsed.val), str_val.rest)
                       ELSE IoError("Other",
                                "Failed to parse string data as Value::PreTokStr(_).")
       ELSE UnknownExtTypeCode(code.val)

\* <Value as BinarySerializable>::deserialize
Deserialize(stream) ==
    LET code == ReadU8(stream)
        type_code == code.val
        after == code.rest
    IN IF code.tag = "Err" THEN code
       ELSE CASE type_code = TEXT_CODE ->
                   LET r == ReadString(after)
                   IN IF r.tag = "Err" THEN r
                      ELSE Read(Str(r.val), r.rest)
              [] type_code = U64_CODE ->
                   LET r == ReadU64(after)
                   IN IF r.tag = "Err" THEN r
                      ELSE Read(U64(r.val), r.rest)
              [] type_code = I64_CODE ->
                   LET r == ReadI64(after)
                   IN IF r.tag = "Err" THEN r
                      ELSE Read(I64(r.val), r.rest)
              [] type_code = F64_CODE ->
                   LET r == ReadFixed(after, 8)
                   IN IF r.tag = "Err" THEN r
                      ELSE Read(F64(U64ToF64(r.val)), r.rest)
              [] type_code = BOOL_CODE ->
                   LET r == ReadBool(after)
                   IN IF r.tag = "Err" THEN r
                      ELSE Read(Bool(r.val), r.rest)
              [] type_code = DATE_CODE ->
                   LET r == ReadI64(after)
                   IN IF r.tag = "Err" THEN r
                      ELSE Read(Date(FromTimestampMicros(r.val)), r.rest)
              [] type_code = HIERARCHICAL_FACET_CODE ->
                   LET r == ReadString(after)
                   IN IF r.tag = "Err" THEN r
                      ELSE Read(Facet(r.val), r.rest)
              [] type_code = BYTES_CODE ->
                   LET r == ReadBytes(after)
                   IN IF r.tag = "Err" THEN r
                      ELSE Read(Bytes(r.val), r.rest)
              [] type_code = EXT_CODE -> DeserializeExt(after)
              [] type_code = JSON_OBJ_CODE ->
                   LET r == ParseJsonObject(after)
                   IN IF r.tag = "Err" THEN r
                      ELSE Read(JsonObject(r.val), r.rest)
              [] type_code = IP_CODE ->
                   LET r == ReadU128(after)
                   IN IF r.tag = "Err" THEN r
                      ELSE Read(IpAddr(IpFromU128(r.val)), r.rest)
              [] OTHER -> UnknownTypeCode(type_code)

(***************************************************************************)
(* The Value codec as a state machine: a Value is serialized into the      *)
(* writer and the reader is placed on the written bytes, which other bytes *)
(* may follow; or the reader is placed on a stream from elsewhere; then    *)
(* deserialize runs on the reader.                                         *)
(***************************************************************************)
MaxText == 2
MaxInt == 300
MaxStream == 3

Chars == {97, 98}
Texts == SeqsUpTo(Chars, MaxText)
TokenLists == SeqsUpTo({1, 2}, MaxText)
U64s == {0, 1, 255, 256, MaxInt}
I64s == U64s \cup {0 - n : n \in U64s}

\* Bit patterns of 0.0, -0.0, 1.0, -1.0 and a NaN.
F64s == {<<0, 0, 0, 0, 0, 0, 0, 0>>, <<0, 0, 0, 0, 0, 0, 0, 128>>,
         <<0, 0, 0, 0, 0, 0, 240, 63>>, <<0, 0, 0, 0, 0, 0, 240, 191>>,
         <<0, 0, 0, 0, 0, 0, 248, 127>>}

ByteVecs == SeqsUpTo({0, 255}, MaxText)
JsonNodes == {JsonLeaf(97), JsonObj(<< >>), JsonObj(<<JsonLeaf(98)>>)}
JsonMaps == {JsonObj(items) : items \in SeqsUpTo(JsonNodes, 2)}
Ips == {[i \in 1..16 |-> IF i = 16 THEN a ELSE IF i = 15 THEN b ELSE 0] :
          a, b \in {0, 1, 255}}

Values ==
    {Str(t) : t \in Texts}
    \cup {PreTokStr([text |-> t, tokens |-> k]) : t \in Texts, k \in TokenLists}
    \cup {U64(n) : n \in U64s}
    \cup {I64(n) : n \in I64s}
    \cup {F64(b) : b \in F64s}
    \cup {Bool(b) : b \in BOOLEAN}
    \cup {Date(FromTimestampMicros(n)) : n \in I64s}
    \cup {Facet(t) : t \in Texts}
    \cup {Bytes(b) : b \in ByteVecs}
    \cup {JsonObject(m) : m \in JsonMaps}
    \cup {IpAddr(ip) : ip \in Ips}

\* What may follow a serialized Value in the stream.
Trailings == {<< >>, <<0>>, <<CLOSE_BRACE>>, <<OPEN_BRACE, 129>>}

\* Streams that were not written by serialize.
StreamBytes == {0, 2, 7, 8, 11, 123, 125, 129, 255}
Streams == SeqsUpTo(StreamBytes, MaxStream)

NoValue == [variant |-> "none"]
NotRead == [tag |-> "none"]
ColumnIdle ==
    /\ output = << >>
    /\ pc = "idle"
    /\ call = NoCall
    /\ column_index_num_bytes = 0
    /\ opened = NoOpen

ValueInit ==
    /\ ColumnIdle
    /\ value = NoValue
    /\ writer = << >>
    /\ reader = << >>
    /\ deserialized = NotRead

\* value.serialize(&mut writer), the written bytes then put before a reader.
ValueSerialize ==
    /\ value = NoValue
    /\ reader = << >>
    /\ deserialized = NotRead
    /\ \E v \in Values, trailing \in Trailings :
         LET result == Serialize(v)
         IN /\ value' = v
            /\ writer' = writer \o result.bytes
            /\ reader' = writer' \o trailing
    /\ UNCHANGED deserialized
    /\ UNCHANGED colvars

\* A reader over bytes that no serialize wrote.
ValueOpenStream ==
    /\ value = NoValue
    /\ reader = << >>
    /\ deserialized = NotRead
    /\ reader' \in Streams
    /\ UNCHANGED <<value, writer, deserialized>>
    /\ UNCHANGED colvars

\* Value::deserialize(&mut reader).  On success the reader stands after the
\* bytes read; on failure it stands somewhere after the type code.
ValueDeserialize ==
    /\ deserialized = NotRead
    /\ LET result == Deserialize(reader)
       IN /\ deserialized' = result @@ [input |-> reader]
          /\ IF result.tag = "Ok" THEN reader' = result.rest
             ELSE reader' \in {Drop(reader, k) : k \in Min(1, Len(reader))..Len(reader)}
    /\ UNCHANGED <<value, writer>>
    /\ UNCHANGED colvars

ValueNext ==
    \/ ValueSerialize
    \/ ValueOpenStream
    \/ ValueDeserialize

ValueSpec == ValueInit /\ [][ValueNext]_vars

(***************************************************************************)
(* Properties of the Value codec.                                          *)
(***************************************************************************)
\* The code a stream is refused for: its first byte when that is none of
\* 0..=10, its second byte when the first is 7 and the second is not 0.
HasOffendingCode(stream) ==
    \/ Len(stream) >= 1 /\ stream[1] \notin 0..10
    \/ Len(stream) >= 2 /\ stream[1] = 7 /\ stream[2] # 0
OffendingCode(stream) ==
    IF stream[1] \notin 0..10 THEN stream[1] ELSE stream[2]

\* C11: deserialize on a stream whose first byte is none of the type codes
\* 0..=10, or whose first byte is 7 and whose second byte is not 0, returns
\* an InvalidData error whose message names that code, and no Value.
C11_UnknownCodeIsInvalidData ==
    (deserialized # NotRead /\ HasOffendingCode(deserialized.input))
        => /\ deserialized.tag = "Err"
           /\ deserialized.kind = "InvalidData"
           /\ deserialized.msg[2] = OffendingCode(deserialized.input)

C11_Witness ==
    /\ deserialized # NotRead
    /\ deserialized.input = <<255, 0, 129>>
    /\ deserialized.tag = "Err"

\* The leading type code serialize writes for a Value.
LeadingCode(v) == Serialize(v).bytes[1]

\* C12: a Value that serialize wrote starts with a type code that no other
\* variant is written with (PreTokStr with 7 and then 0); deserialize on the
\* written bytes returns a Value of the same variant, equal to the one
\* written, and leaves the reader right after the bytes serialize wrote.
C12_ValueRoundTrip ==
    (value # NoValue /\ Serialize(value).tag = "Ok")
        => /\ \A other \in Values :
                LeadingCode(other) = writer[1] => other.variant = value.variant
           /\ value.variant = "PreTokStr"
                => writer[1] = 7 /\ writer[2] = 0
           /\ deserialized # NotRead
                => /\ deserialized.tag = "Ok"
                   /\ deserialized.val.variant = value.variant
                   /\ deserialized.val = value
                   /\ deserialized.input = writer \o reader

C12_Witness ==
    /\ value.variant = "Date"
    /\ value.date.timestamp_micros < 0
    /\ deserialized # NotRead
    /\ deserialized.tag = "Ok"
    /\ reader = <<OPEN_BRACE, 129>>

(***************************************************************************)
(* Failure of a serialize call of the column driver.                       *)
(***************************************************************************)
\* The sink after a write of `bytes` that failed: less than all of them.
CutShort(before, after, bytes) ==
    \E k \in 0..(Len(bytes) - 1) : after = before \o Take(bytes, k)

\* C13: serialize stops at the first failing step.  A failed column-index
\* write leaves only part of the index in the sink, a failed values write
\* leaves the index and only part of the values; either way the call has
\* returned the error and nothing is written after it, so no footer follows,
\* and what the sink held is kept.
C13_StopsAtFirstFailure ==
    [][ /\ (pc = "idle" /\ pc' = "failed")
             => CutShort(output, output', IndexBytes')
        /\ (pc = "values" /\ pc' = "failed")
             => /\ output = call.sink0 \o IndexBytes
                /\ CutShort(output, output', ValuesBytes')
        /\ pc = "failed" => (pc' = "failed" /\ output' = output)
        /\ pc' = "failed" => IsPrefix(output, output')
      ]_vars

C13_Witness ==
    /\ pc = "failed"
    /\ call.path = "u128"
    /\ Len(Blob) > Len(IndexBytes)
    /\ Len(Blob) < Len(IndexBytes) + Len(ValuesBytes)

====
